---- MODULE Spec2Model ----
(***************************************************************************)
(* Session vector retrieval engine of chatwithpdf (backend/main.py,        *)
(* backend/embedding/faiss_manager.py): the per-session FAISS index and    *)
(* its two persisted files, the in-memory QueryCache, and FAISSManager.    *)
(*                                                                         *)
(* Scheduling.  upload_files and query_documents are `async def` handlers  *)
(* run by one uvicorn event loop (main.py:1229).  Between `await           *)
(* file.read()` and the end of one file's processing the handler calls     *)
(* only synchronous functions, so that section runs to completion before   *)
(* any other handler runs; no lock is taken anywhere in it.  The model     *)
(* keeps one in-flight synchronous section (`call`) and splits it at its   *)
(* file-system operations, the points where an I/O error or a process      *)
(* crash can end it.                                                       *)
(***************************************************************************)
EXTENDS Integers, Sequences, FiniteSets, TLC

VARIABLES
    disk,       \* per session: the two persisted files and the two temp files
    mem,        \* shared_resources.faiss_indices / metadata_dict
    call,       \* the synchronous section in flight (upload of one file)
    ret,        \* what the finished upload returned, until the response is sent
    committed,  \* history: per session, the adds that returned True
    nextUp,     \* history: number of the next upload
    obs,        \* what retrieve_relevant_chunks loaded and returned, until the
                \* response is sent
    qc,         \* QueryCache._cache: the entries, least recently used first
    now,        \* time.time()
    qcRet,      \* the QueryCache call that ended and what it returned, until
                \* the awaiting caller resumes
    useOrder,   \* history: the cached keys, least recently used first
    stale,      \* history: cached keys stored before an upload of their session ended
    fm,         \* a FAISSManager: dimension, index, metadata
    fmDir,      \* the directory save_index writes and load_index reads
    fmRet,      \* the FAISSManager call that ended: what it returned or raised
    fmNext,     \* history: id of the next embedding handed to add_embeddings
    lock,       \* QueryCache._lock: the task holding it, or "free"
    task,       \* the tasks running QueryCache coroutines, statement by statement
    rr,         \* the SearchReranker call that ended and what it returned
    ec,         \* an EmbeddingCache: memory_cache and the files of cache_dir
    ecRet,      \* the EmbeddingCache call that ended: what it returned, and the
                \* cache before it
    ecPrev,     \* history: the EmbeddingCache call before that one
    sr,         \* the SemanticRetriever call that ended and what it returned
    ck,         \* the SemanticChunker call that ended and what it returned
    rt          \* a call of a function wrapped by retry_with_backoff

idxVars == <<disk, mem, call, ret, committed, nextUp, obs>>
qcVars == <<qc, now, qcRet, useOrder, stale>>
fmVars == <<fm, fmDir, fmRet, fmNext>>
lkVars == <<lock, task>>
rrVars == <<rr>>
ecVars == <<ec, ecRet, ecPrev>>
srVars == <<sr>>
ckVars == <<ck>>
rtVars == <<rt>>
auxVars == <<rrVars, ecVars, srVars, ckVars, rtVars>>
vars == <<disk, mem, call, ret, committed, nextUp, obs, qc, now, qcRet, useOrder, stale,
          fm, fmDir, fmRet, fmNext, lock, task,
          rr, ec, ecRet, ecPrev, sr, ck, rt>>

----------------------------------------------------------------------------
(* Bounds of the model *)

MaxUploads == 2      \* uploads per behaviour
MaxTime == 2         \* the clock stops here
max_size == 2        \* QueryCache.max_size (100 in config.py)
ttl_seconds == 1     \* QueryCache.ttl_seconds (600 in config.py)
MaxVectors == 3      \* vectors, and records, one FAISSManager holds
MaxIds == 3          \* embeddings handed to add_embeddings per behaviour
(* the numbers of chunks one file is split into; 0 is a rejected file *)
ChunkCounts == {0, 1, 2}

Sessions == {"s1", "s2"}
Filenames == {"f1", "f2"}
Queries == {1, 2}
(* selected_files of a query: None (the empty set) or a set of filenames *)
Selections == {{}, {"f1"}}
(* top_k of a retrieval (query_documents passes 15) *)
TopKs == {2}

----------------------------------------------------------------------------
(* Files.  A file is absent, completely written, or cut short by a failed  *)
(* write.                                                                  *)

NoFile == [st |-> "none", data |-> <<>>]
PartialFile == [st |-> "partial", data |-> <<>>]
FileOf(d) == [st |-> "ok", data |-> d]

Exists(f) == f.st # "none"

(* the keys of a QueryCache map *)
KeysOf(c) == {c[i].key : i \in 1..Len(c)}

EmptyDir == [idx |-> NoFile, meta |-> NoFile, tmpIdx |-> NoFile, tmpMeta |-> NoFile]

(* (None, None) of load_faiss_index *)
NoneNone == [ok |-> FALSE, index |-> <<>>, metadata |-> <<>>]

(* load_faiss_index(chat_id) on the session's directory d.  readErr is the *)
(* file whose read raises ("none": both reads succeed).                    *)
LoadFaissIndex(d, readErr) ==
    IF ~Exists(d.idx) \/ ~Exists(d.meta)
    THEN NoneNone
    ELSE IF readErr = "index" \/ d.idx.st # "ok"
    THEN NoneNone
    ELSE IF readErr = "metadata" \/ d.meta.st # "ok"
    THEN NoneNone
    ELSE [ok |-> TRUE, index |-> d.idx.data, metadata |-> d.meta.data]

----------------------------------------------------------------------------
(* add_to_faiss_index, in memory *)

(* the text chunks of upload u, n of them *)
TextChunks(u, n) == [i \in 1..n |-> [up |-> u, i |-> i]]

(* embedder.encode + normalize_L2: one vector per chunk, in order *)
Encode(chunks) == [i \in 1..Len(chunks) |-> [vec |-> chunks[i]]]

(* the index and metadata the add starts from (main.py:395-405); base     *)
(* names the branch taken: the pair loaded, a new index because there is   *)
(* no index file, or a new index because the load returned None            *)
CreateOrLoad(d, readErr) ==
    IF Exists(d.idx)
    THEN LET l == LoadFaissIndex(d, readErr)
         IN  IF ~l.ok THEN [index |-> <<>>, metadata |-> <<>>, base |-> "unloadable"]
             ELSE [index |-> l.index, metadata |-> l.metadata, base |-> "loaded"]
    ELSE [index |-> <<>>, metadata |-> <<>>, base |-> "new"]

(* records numbered from 0 in every add (a faulty variant of ChunkMetadata) *)
ChunkMetadataFromZero(s, f, chunks, metadata) ==
    [i \in 1..Len(chunks) |->
        [chunk_id |-> [chat |-> s, n |-> i - 1],
         filename |-> f,
         chat_id |-> s,
         content |-> chunks[i],
         chunk_index |-> i - 1]]

(* the records of the new chunks (main.py:413-422); chunk_index is 0-based *)
ChunkMetadata(s, f, chunks, metadata) ==
    [i \in 1..Len(chunks) |->
        [chunk_id |-> [chat |-> s, n |-> Len(metadata) + i - 1],
         filename |-> f,
         chat_id |-> s,
         content |-> chunks[i],
         chunk_index |-> Len(metadata) + i - 1]]

(* what a write that raised leaves at its path *)
FailedWrite(outcome) == IF outcome = "partial" THEN PartialFile ELSE NoFile

(* a rollback that forgets temp_index_path.unlink (a faulty variant of Rollback) *)
RollbackKeepsTempIndex(d) == [d EXCEPT !.tmpMeta = NoFile]

(* except-branch of the persistence block: both temp files are unlinked *)
Rollback(d) == [d EXCEPT !.tmpIdx = NoFile, !.tmpMeta = NoFile]

----------------------------------------------------------------------------
(* retrieve_relevant_chunks, in memory *)

(* inner product of the embedding of query q with the vector of a chunk:   *)
(* the embedding model is external, this is a fixed table of scores        *)
Sim(q, v) == (q * v.vec.up + v.vec.i) % 3

(* the position IndexFlatIP.search reports next among the positions S:     *)
(* highest inner product first, the earlier position on a tie              *)
BestOf(index, q, S) ==
    CHOOSE j \in S : \A m \in S :
        \/ Sim(q, index[j]) > Sim(q, index[m])
        \/ Sim(q, index[j]) = Sim(q, index[m]) /\ j <= m

RECURSIVE SearchFrom(_, _, _, _)
SearchFrom(index, q, S, k) ==
    IF k = 0 \/ S = {} THEN <<>>
    ELSE LET b == BestOf(index, q, S)
         IN  <<b>> \o SearchFrom(index, q, S \ {b}, k - 1)

(* index.search(query_embedding, search_k): positions, best first *)
IndexSearch(index, q, k) == SearchFrom(index, q, 1..Len(index), k)

(* a loop that ignores selected_files (a faulty variant of CollectChunks) *)
RECURSIVE CollectChunksUnfiltered(_, _, _, _, _, _)
CollectChunksUnfiltered(hits, rank, index, metadata, q, sel) ==
    IF rank > Len(hits) THEN <<>>
    ELSE LET j == hits[rank]
             rest == CollectChunksUnfiltered(hits, rank + 1, index, metadata, q, sel)
         IN  IF j > Len(metadata) THEN rest
             ELSE <<[chunk_id |-> metadata[j].chunk_id,
                     filename |-> metadata[j].filename,
                     content |-> metadata[j].content,
                     similarity |-> Sim(q, index[j]),
                     rank |-> rank]>> \o rest

(* the loop over the hits (main.py:547-571): a hit without a record or     *)
(* outside the selected files is skipped                                   *)
RECURSIVE CollectChunks(_, _, _, _, _, _)
CollectChunks(hits, rank, index, metadata, q, sel) ==
    IF rank > Len(hits) THEN <<>>
    ELSE LET j == hits[rank]
             rest == CollectChunks(hits, rank + 1, index, metadata, q, sel)
         IN  IF j > Len(metadata) THEN rest
             ELSE IF sel # {} /\ metadata[j].filename \notin sel THEN rest
             ELSE <<[chunk_id |-> metadata[j].chunk_id,
                     filename |-> metadata[j].filename,
                     content |-> metadata[j].content,
                     similarity |-> Sim(q, index[j]),
                     rank |-> rank]>> \o rest

(* chunks.sort(key=similarity, reverse=True): a stable sort *)
RECURSIVE SortBySimilarity(_)
SortBySimilarity(chunks) ==
    IF Len(chunks) <= 1 THEN chunks
    ELSE LET best == CHOOSE i \in 1..Len(chunks) : \A m \in 1..Len(chunks) :
                        \/ chunks[i].similarity > chunks[m].similarity
                        \/ chunks[i].similarity = chunks[m].similarity /\ i <= m
         IN  <<chunks[best]>> \o
             SortBySimilarity([i \in 1..(Len(chunks) - 1) |->
                                   IF i < best THEN chunks[i] ELSE chunks[i + 1]])

Min(a, b) == IF a < b THEN a ELSE b

(* the list retrieve_relevant_chunks returns for a loaded pair *)
Retrieved(index, metadata, q, sel, topK) ==
    LET hits == IndexSearch(index, q, Min(topK * 3, Len(index)))
        sorted == SortBySimilarity(CollectChunks(hits, 1, index, metadata, q, sel))
    IN  SubSeq(sorted, 1, Min(topK, Len(sorted)))

----------------------------------------------------------------------------
Idle == [active |-> FALSE, pc |-> "idle", sid |-> "s1", filename |-> "f1",
         up |-> 0, n |-> 0, index |-> <<>>, metadata |-> <<>>, base |-> "none",
         prev |-> [idx |-> NoFile, meta |-> NoFile]]

NoRet == [up |-> 0, sid |-> "s1", val |-> "none", fault |-> "none"]

NoObs == [taken |-> FALSE, sid |-> "s1", path |-> "none", ok |-> FALSE,
          index |-> <<>>, metadata |-> <<>>, committed |-> {}, idxExists |-> FALSE,
          metaExists |-> FALSE, readErr |-> "none", chunks |-> <<>>]

NoKey == [chat_id |-> "", query |-> <<>>, files |-> <<>>]
NoQcRet == [op |-> "none", key |-> NoKey, hit |-> FALSE, value |-> 0,
            stale |-> FALSE, evicted |-> <<>>, expired |-> FALSE]

NoMem == [has |-> FALSE, index |-> <<>>, metadata |-> <<>>]

(* FAISSManager (faiss_manager.py): the default of `dimension`, and the    *)
(* dimensions of the embeddings and managers it is handed                  *)
DefaultDimension == 768
Dimensions == {768, 384}
(* faiss.IndexFlatIP(dimension): an empty index of dimension d *)
NewIndex(d) == [d |-> d, vecs |-> <<>>]

(* FAISSManager.__init__ *)
NewManager(d) == [dimension |-> d, index |-> NewIndex(d), metadata |-> <<>>]

(* the tasks that call the QueryCache; a task not in a call *)
Tasks == {"t1", "t2"}
NoTask == [pc |-> "idle", op |-> "none", key |-> NoKey, value |-> 0]

FmEmptyDir == [idx |-> NoFile, meta |-> NoFile]
NoFmRet == [op |-> "none", raised |-> "none", value |-> 0]

NoRr == [op |-> "none", chunks |-> <<>>, top_k |-> 0, model |-> FALSE,
         scoring |-> "none", raised |-> FALSE, out |-> <<>>]

(* EmbeddingCache: texts, their md5 hex digests, embeddings, cache files *)
Texts == {"t1", "t2"}
Hashes == {"h1", "h2"}
Vectors == {"v1", "v2"}
NoFileEc == [kind |-> "absent", data |-> "None"]
NewCache == [memory_cache |-> [h \in Hashes |-> "None"],
             files |-> [h \in Hashes |-> NoFileEc]]
NoEcRet == [op |-> "none", text |-> "None", arg |-> "None", value |-> "None",
            raised |-> FALSE, outcome |-> "none", before |-> NewCache]

(* min_score = None *)
NoMinScore == [given |-> FALSE, v |-> 0]
NoSr == [op |-> "none", shape |-> "none", raised |-> "none", k |-> 0,
         min_score |-> NoMinScore, threshold |-> 0, effective |-> 0,
         survivors |-> <<>>, out |-> <<>>]
NoCk == [op |-> "none", paragraphs |-> <<>>, chunks |-> <<>>, overlapped_chunks |-> <<>>]
DefaultRetryConfig == [max_retries |-> 0, initial_delay |-> 1, max_delay |-> 1,
                       backoff_factor |-> 1]
NoRt == [pc |-> "idle", config |-> DefaultRetryConfig, attempt |-> 0, delay |-> 0,
         last_exception |-> 0, outcomes |-> <<>>, sleeps |-> <<>>, value |-> 0]

Init ==
    /\ disk = [s \in Sessions |-> EmptyDir]
    /\ mem = [s \in Sessions |-> NoMem]
    /\ call = Idle
    /\ ret = NoRet
    /\ committed = [s \in Sessions |-> {}]
    /\ nextUp = 1
    /\ obs = NoObs
    /\ qc = <<>>
    /\ now = 0
    /\ qcRet = NoQcRet
    /\ useOrder = <<>>
    /\ stale = {}
    /\ fm = NewManager(DefaultDimension)
    /\ fmDir = FmEmptyDir
    /\ fmRet = NoFmRet
    /\ fmNext = 1
    /\ lock = "free"
    /\ task = [t \in Tasks |-> NoTask]
    /\ rr = NoRr
    /\ ec = NewCache
    /\ ecRet = NoEcRet
    /\ ecPrev = NoEcRet
    /\ sr = NoSr
    /\ ck = NoCk
    /\ rt = NoRt

(* the add ends: return False (upload_files answers HTTP 500) *)
ReturnFalse(fault) ==
    /\ ret' = [up |-> call.up, sid |-> call.sid, val |-> "false", fault |-> fault]
    /\ call' = Idle

(* upload_files up to the call of add_to_faiss_index, for one file of n    *)
(* chunks; n = 0 is a file that is rejected with HTTP 400 before the add.  *)
UploadFiles(s, f, n) ==
    /\ ~call.active /\ ret = NoRet /\ obs = NoObs
    /\ nextUp <= MaxUploads
    /\ nextUp' = nextUp + 1
    /\ IF n = 0
       THEN /\ ret' = [up |-> nextUp, sid |-> s, val |-> "http400", fault |-> "none"]
            /\ call' = Idle
       ELSE /\ call' = [active |-> TRUE, pc |-> "encode", sid |-> s, filename |-> f,
                        up |-> nextUp, n |-> n, index |-> <<>>, metadata |-> <<>>,
                        base |-> "none",
                        prev |-> [idx |-> disk[s].idx, meta |-> disk[s].meta]]
            /\ ret' = ret
    /\ UNCHANGED <<disk, mem, committed, obs, qcVars, fmVars, lkVars, auxVars>>

(* embedder.encode over the chunks; a raise ends the add with False *)
EncodeChunks(okEnc) ==
    /\ call.active /\ call.pc = "encode"
    /\ IF okEnc
       THEN /\ call' = [call EXCEPT !.pc = "load"]
            /\ ret' = ret
       ELSE ReturnFalse("encode")
    /\ UNCHANGED <<disk, mem, committed, nextUp, obs, qcVars, fmVars, lkVars, auxVars>>

(* create or load the index, add the vectors, extend the metadata *)
LoadAndAppend(readErr) ==
    /\ call.active /\ call.pc = "load"
    /\ LET base == CreateOrLoad(disk[call.sid], readErr)
           chunks == TextChunks(call.up, call.n)
       IN  call' = [call EXCEPT
                      !.pc = "write_index",
                      !.base = base.base,
                      !.index = base.index \o Encode(chunks),
                      !.metadata = base.metadata \o
                          ChunkMetadata(call.sid, call.filename, chunks, base.metadata)]
    /\ UNCHANGED <<disk, mem, ret, committed, nextUp, obs, qcVars, fmVars, lkVars, auxVars>>

(* faiss.write_index(index, temp_index_path); a write that fails leaves   *)
(* a cut-short file ("partial") or none ("nofile") before the rollback     *)
WriteTempIndex(outcome) ==
    /\ call.active /\ call.pc = "write_index"
    /\ IF outcome = "ok"
       THEN /\ disk' = [disk EXCEPT ![call.sid].tmpIdx = FileOf(call.index)]
            /\ call' = [call EXCEPT !.pc = "write_meta"]
            /\ ret' = ret
       ELSE /\ disk' = [disk EXCEPT ![call.sid] =
                          Rollback([@ EXCEPT !.tmpIdx = FailedWrite(outcome)])]
            /\ ReturnFalse("write_index")
    /\ UNCHANGED <<mem, committed, nextUp, obs, qcVars, fmVars, lkVars, auxVars>>

(* pickle.dump(metadata) into temp_metadata_path *)
WriteTempMetadata(outcome) ==
    /\ call.active /\ call.pc = "write_meta"
    /\ IF outcome = "ok"
       THEN /\ disk' = [disk EXCEPT ![call.sid].tmpMeta = FileOf(call.metadata)]
            /\ call' = [call EXCEPT !.pc = "rename_index"]
            /\ ret' = ret
       ELSE /\ disk' = [disk EXCEPT ![call.sid] =
                          Rollback([@ EXCEPT !.tmpMeta = FailedWrite(outcome)])]
            /\ ReturnFalse("write_meta")
    /\ UNCHANGED <<mem, committed, nextUp, obs, qcVars, fmVars, lkVars, auxVars>>

(* temp_index_path.replace(index_path) *)
RenameIndex(outcome) ==
    /\ call.active /\ call.pc = "rename_index"
    /\ IF outcome = "ok"
       THEN /\ disk' = [disk EXCEPT ![call.sid].idx = disk[call.sid].tmpIdx,
                                    ![call.sid].tmpIdx = NoFile]
            /\ call' = [call EXCEPT !.pc = "rename_meta"]
            /\ ret' = ret
       ELSE /\ disk' = [disk EXCEPT ![call.sid] = Rollback(disk[call.sid])]
            /\ ReturnFalse("rename_index")
    /\ UNCHANGED <<mem, committed, nextUp, obs, qcVars, fmVars, lkVars, auxVars>>

(* temp_metadata_path.replace(metadata_path), then the in-memory cache is  *)
(* updated and the add returns True                                        *)
RenameMetadata(outcome) ==
    /\ call.active /\ call.pc = "rename_meta"
    /\ IF outcome = "ok"
       THEN /\ disk' = [disk EXCEPT ![call.sid].meta = disk[call.sid].tmpMeta,
                                    ![call.sid].tmpMeta = NoFile]
            /\ mem' = [mem EXCEPT ![call.sid] =
                         [has |-> TRUE, index |-> call.index, metadata |-> call.metadata]]
            /\ committed' = [committed EXCEPT ![call.sid] =
                               @ \cup {[up |-> call.up, n |-> call.n]}]
            /\ ret' = [up |-> call.up, sid |-> call.sid, val |-> "true", fault |-> "none"]
            /\ call' = Idle
            /\ stale' = stale \cup {k \in KeysOf(qc) : k.chat_id = call.sid}
       ELSE /\ disk' = [disk EXCEPT ![call.sid] = Rollback(disk[call.sid])]
            /\ ReturnFalse("rename_meta")
            /\ UNCHANGED <<mem, committed, stale, auxVars>>
    /\ UNCHANGED <<nextUp, obs, qc, now, qcRet, useOrder, fmVars, lkVars, auxVars>>

(* the process dies (and is restarted): the call in flight, the in-memory  *)
(* dictionaries and the query cache are gone, the files stay as they are   *)
Crash ==
    /\ call.active
    /\ call' = Idle
    /\ mem' = [s \in Sessions |-> NoMem]
    /\ ret' = [up |-> call.up, sid |-> call.sid, val |-> "crash", fault |-> call.pc]
    /\ qc' = <<>> /\ qcRet' = NoQcRet /\ useOrder' = <<>> /\ stale' = {}
    /\ UNCHANGED <<disk, committed, nextUp, obs, now, fmVars, lkVars, auxVars>>

(* retrieve_relevant_chunks(query, chat_id, selected_files, top_k): the    *)
(* query is embedded (a raise returns []), the pair is loaded (None        *)
(* returns []), the index is searched and the hits are filtered, sorted    *)
(* and cut to top_k                                                        *)
RetrieveRelevantChunks(s, q, sel, topK, fault) ==
    /\ ~call.active /\ ret = NoRet /\ obs = NoObs
    /\ LET embedOk == fault # "embed"
           readErr == IF fault \in {"index", "metadata"} THEN fault ELSE "none"
           l == IF embedOk THEN LoadFaissIndex(disk[s], readErr) ELSE NoneNone
       IN  obs' = [taken |-> TRUE, sid |-> s,
                   path |-> IF ~embedOk THEN "embed_failed"
                            ELSE IF ~l.ok THEN "no_index" ELSE "searched",
                   ok |-> l.ok, index |-> l.index,
                   metadata |-> l.metadata, committed |-> committed[s],
                   idxExists |-> Exists(disk[s].idx),
                   metaExists |-> Exists(disk[s].meta), readErr |-> readErr,
                   chunks |-> IF l.ok THEN Retrieved(l.index, l.metadata, q, sel, topK)
                              ELSE <<>>]
    /\ UNCHANGED <<disk, mem, call, ret, committed, nextUp, qcVars, fmVars, lkVars, auxVars>>

(* what query_documents answers for the list retrieve_relevant_chunks      *)
(* returned (main.py:790-796, 855-868)                                     *)
QueryResponseOf(chunks) ==
    IF chunks = <<>> THEN "no_relevant_information" ELSE "answer_with_sources"

(* the handler's response is sent (after a crash: the process is up again) *)
Respond ==
    /\ ~call.active
    /\ ret # NoRet \/ obs # NoObs
    /\ ret' = NoRet
    /\ obs' = NoObs
    /\ UNCHANGED <<disk, mem, call, committed, nextUp, qcVars, fmVars, lkVars, auxVars>>

Outcomes == {"ok", "fail"}
WriteOutcomes == {"ok", "partial", "nofile"}
ReadErrs == {"none", "index", "metadata"}
(* what raises during a retrieval: nothing, the embedder, or one read *)
RetrieveFaults == {"none", "embed", "index", "metadata"}

Next ==
    \/ \E s \in Sessions, f \in Filenames, n \in ChunkCounts : UploadFiles(s, f, n)
    \/ \E b \in BOOLEAN : EncodeChunks(b)
    \/ \E e \in ReadErrs : LoadAndAppend(e)
    \/ \E o \in WriteOutcomes : WriteTempIndex(o)
    \/ \E o \in WriteOutcomes : WriteTempMetadata(o)
    \/ \E o \in Outcomes : RenameIndex(o)
    \/ \E o \in Outcomes : RenameMetadata(o)
    \/ Crash
    \/ \E s \in Sessions, q \in Queries, sel \in Selections, k \in TopKs,
          e \in RetrieveFaults :
          RetrieveRelevantChunks(s, q, sel, k, e)
    \/ Respond

Spec == Init /\ [][Next]_vars

----------------------------------------------------------------------------
(* QueryCache (main.py:90-159).  Its methods are coroutines of the same    *)
(* event loop; each holds self._lock around a body without an await, so a  *)
(* method runs as one step, and never inside a synchronous upload section. *)

(* selected_file_ids: None, or a list of file ids *)
NoneIds == [none |-> TRUE, ids |-> <<>>]
ListIds(l) == [none |-> FALSE, ids |-> l]

(* the requests the cache is called with: chat_id, query text (a sequence  *)
(* of characters), selected_file_ids                                       *)
Request(c, q, l) == [chat_id |-> c, query |-> q, ids |-> l]
Requests ==
    {Request("s1", <<"a">>, NoneIds),
     Request("s1", <<" ", "A", " ">>, ListIds(<<>>)),
     Request("s1", <<"a">>, ListIds(<<"f1", "f2">>)),
     Request("s1", <<"A">>, ListIds(<<"f2", "f1">>)),
     Request("s2", <<"a">>, NoneIds),
     Request("s2", <<"b", " ">>, NoneIds)}

QValues == {1, 2}

(* str.lower on one character; "dotless_i" is U+0131, a lowercase letter  *)
(* whose uppercase is "I"                                                  *)
Lower(c) == CASE c = "A" -> "a" [] c = "B" -> "b" [] c = "I" -> "i" [] OTHER -> c

IsSpace(c) == c = " "

(* str.strip *)
RECURSIVE LStrip(_)
LStrip(q) == IF q # <<>> /\ IsSpace(Head(q)) THEN LStrip(Tail(q)) ELSE q

RECURSIVE RStrip(_)
RStrip(q) ==
    IF q # <<>> /\ IsSpace(q[Len(q)]) THEN RStrip(SubSeq(q, 1, Len(q) - 1)) ELSE q

Strip(q) == RStrip(LStrip(q))

(* query.strip().lower() *)
NormalizeQuery(q) == LET t == Strip(q) IN [i \in 1..Len(t) |-> Lower(t[i])]

(* the order of the file-id strings *)
IdRank(f) == CASE f = "f1" -> 1 [] f = "f2" -> 2 [] OTHER -> 3

RECURSIVE InsertSorted(_, _)
InsertSorted(l, f) ==
    IF l = <<>> THEN <<f>>
    ELSE IF IdRank(f) < IdRank(Head(l)) THEN <<f>> \o l
    ELSE <<Head(l)>> \o InsertSorted(Tail(l), f)

(* sorted(ids) *)
RECURSIVE Sorted(_)
Sorted(l) == IF l = <<>> THEN <<>> ELSE InsertSorted(Sorted(Tail(l)), Head(l))

(* _make_key: the JSON text of the three fields, which is one-to-one on    *)
(* them, is kept as the record of the fields                               *)
MakeKey(chat_id, query, selected_file_ids) ==
    [chat_id |-> chat_id,
     query |-> NormalizeQuery(query),
     files |-> Sorted(IF selected_file_ids.none THEN <<>> ELSE selected_file_ids.ids)]

(* position of key in the cache, 0 when absent *)
PosOf(c, key) ==
    IF \E i \in 1..Len(c) : c[i].key = key
    THEN CHOOSE i \in 1..Len(c) : c[i].key = key
    ELSE 0

RemoveAt(c, i) == SubSeq(c, 1, i - 1) \o SubSeq(c, i + 1, Len(c))

(* OrderedDict.move_to_end(key) *)
MoveToEnd(c, i) == RemoveAt(c, i) \o <<c[i]>>

(* a hit that does not refresh the entry's position (a faulty variant of GetHit) *)
GetHitNoMove(c, i) == c

(* a hit that restarts the entry's TTL (a faulty variant of GetHit) *)
GetHitRefresh(c, i) ==
    LET m == MoveToEnd(c, i) IN [m EXCEPT ![Len(m)].ts = now]

(* get on a live entry (main.py:130-132): the entry becomes the newest *)
GetHit(c, i) == MoveToEnd(c, i)

(* an expiry test that is off by one (a faulty variant of Expired) *)
ExpiredAtTtl(e, t) == t - e.ts >= ttl_seconds

(* is the entry expired at time t (main.py:126) *)
Expired(e, t) == t - e.ts > ttl_seconds

(* set up to the eviction (main.py:143-145) *)
SetEntry(c, key, t, value) ==
    LET i == PosOf(c, key)
        e == [key |-> key, ts |-> t, value |-> value]
    IN  IF i # 0
        THEN LET m == MoveToEnd(c, i) IN [m EXCEPT ![Len(m)] = e]
        ELSE Append(c, e)

(* while len(cache) > max_size: popitem(last=False) *)
RECURSIVE EvictOldest(_)
EvictOldest(c) == IF Len(c) > max_size THEN EvictOldest(Tail(c)) ELSE c

(* an invalidation that empties the cache (a faulty variant of DropSession) *)
DropEverySession(c, chat_id) == <<>>

(* the keys of chat_id are popped (main.py:157-159) *)
RECURSIVE DropSession(_, _)
DropSession(c, chat_id) ==
    IF c = <<>> THEN <<>>
    ELSE IF Head(c).key.chat_id = chat_id THEN DropSession(Tail(c), chat_id)
    ELSE <<Head(c)>> \o DropSession(Tail(c), chat_id)

(* history: key used now; keys no longer cached are forgotten *)
RECURSIVE Without(_, _)
Without(order, gone) ==
    IF order = <<>> THEN <<>>
    ELSE IF Head(order) \in gone THEN Without(Tail(order), gone)
    ELSE <<Head(order)>> \o Without(Tail(order), gone)

Used(order, key) == Without(order, {key}) \o <<key>>

Forget(order, cache) == Without(order, {order[i] : i \in 1..Len(order)} \ KeysOf(cache))

(* QueryCache.get *)
QCGet(chat_id, query, ids) ==
    LET key == MakeKey(chat_id, query, ids)
        i == PosOf(qc, key)
    IN  /\ ~call.active /\ qcRet = NoQcRet
        /\ IF i = 0
           THEN /\ qc' = qc
                /\ qcRet' = [NoQcRet EXCEPT !.op = "get", !.key = key]
                /\ useOrder' = useOrder
           ELSE IF Expired(qc[i], now)
           THEN /\ qc' = RemoveAt(qc, i)
                /\ qcRet' = [NoQcRet EXCEPT !.op = "get", !.key = key, !.expired = TRUE]
                /\ useOrder' = Without(useOrder, {key})
           ELSE /\ qc' = GetHit(qc, i)
                /\ qcRet' = [NoQcRet EXCEPT !.op = "get", !.key = key, !.hit = TRUE,
                                            !.value = qc[i].value,
                                            !.stale = key \in stale]
                /\ useOrder' = Used(useOrder, key)
        /\ stale' = stale \cap KeysOf(qc')
        /\ UNCHANGED <<now, idxVars, fmVars, lkVars, auxVars>>

(* QueryCache.set *)
QCSet(chat_id, query, ids, value) ==
    LET key == MakeKey(chat_id, query, ids)
        put == SetEntry(qc, key, now, value)
        kept == EvictOldest(put)
    IN  /\ ~call.active /\ qcRet = NoQcRet
        /\ qc' = kept
        /\ qcRet' = [NoQcRet EXCEPT !.op = "set", !.key = key,
                        !.evicted = SubSeq(put, 1, Len(put) - Len(kept))]
        /\ useOrder' = Forget(Used(useOrder, key), kept)
        /\ stale' = (stale \ {key}) \cap KeysOf(kept)
        /\ UNCHANGED <<now, idxVars, fmVars, lkVars, auxVars>>

(* QueryCache.clear *)
QCClear ==
    /\ ~call.active /\ qcRet = NoQcRet
    /\ qc' = <<>>
    /\ qcRet' = [NoQcRet EXCEPT !.op = "clear"]
    /\ useOrder' = <<>>
    /\ stale' = {}
    /\ UNCHANGED <<now, idxVars, fmVars, lkVars, auxVars>>

(* QueryCache.invalidate_session *)
QCInvalidateSession(chat_id) ==
    /\ ~call.active /\ qcRet = NoQcRet
    /\ qc' = DropSession(qc, chat_id)
    /\ qcRet' = [NoQcRet EXCEPT !.op = "invalidate",
                                !.key = [NoKey EXCEPT !.chat_id = chat_id],
                                !.evicted = SelectSeq(qc, LAMBDA e : e.key.chat_id = chat_id)]
    /\ useOrder' = Forget(useOrder, qc')
    /\ stale' = stale \cap KeysOf(qc')
    /\ UNCHANGED <<now, idxVars, fmVars, lkVars, auxVars>>

(* the caller awaiting the QueryCache call resumes with its result *)
QCReturn ==
    /\ qcRet # NoQcRet
    /\ qcRet' = NoQcRet
    /\ UNCHANGED <<qc, now, useOrder, stale, idxVars, fmVars, lkVars, auxVars>>

(* the clock advances *)
Tick ==
    /\ now < MaxTime
    /\ now' = now + 1
    /\ UNCHANGED <<qc, qcRet, useOrder, stale, idxVars, fmVars, lkVars, auxVars>>

NextQC ==
    \/ \E r \in Requests : QCGet(r.chat_id, r.query, r.ids)
    \/ \E r \in Requests, v \in QValues : QCSet(r.chat_id, r.query, r.ids, v)
    \/ QCClear
    \/ \E c \in Sessions : QCInvalidateSession(c)
    \/ QCReturn
    \/ Tick

SpecQC == Init /\ [][NextQC]_vars

(* upload_files and the QueryCache side by side: files are uploaded while  *)
(* query results are cached and read                                       *)
UCRequests ==
    {Request("s1", <<"a">>, NoneIds), Request("s2", <<"a">>, NoneIds)}

NextUC ==
    \/ \E s \in Sessions : UploadFiles(s, "f1", 1)
    \/ \E b \in BOOLEAN : EncodeChunks(b)
    \/ \E e \in ReadErrs : LoadAndAppend(e)
    \/ \E o \in WriteOutcomes : WriteTempIndex(o)
    \/ \E o \in WriteOutcomes : WriteTempMetadata(o)
    \/ \E o \in Outcomes : RenameIndex(o)
    \/ \E o \in Outcomes : RenameMetadata(o)
    \/ Crash
    \/ Respond
    \/ \E r \in UCRequests : QCGet(r.chat_id, r.query, r.ids)
    \/ \E r \in UCRequests : QCSet(r.chat_id, r.query, r.ids, 1)
    \/ \E c \in Sessions : QCInvalidateSession(c)
    \/ QCReturn
    \/ Tick

SpecUC == Init /\ [][NextUC]_vars

(* QueryCache coroutines statement by statement (main.py:113-159): the    *)
(* key is made, `async with self._lock` waits for the lock, the body works *)
(* on the map, and leaving the `async with` releases the lock.  Tasks are  *)
(* interleaved at every one of these points.                               *)

(* a lock that admits every task (a faulty variant of CanAcquire) *)
CanAcquireAlways(l) == TRUE

(* asyncio.Lock.acquire goes on only when the lock is not held *)
CanAcquire(l) == l = "free"

(* the map after the body of operation op on key at time t *)
CacheAfter(c, op, key, t, value) ==
    CASE op = "get" ->
            LET i == PosOf(c, key)
            IN  IF i = 0 THEN c
                ELSE IF Expired(c[i], t) THEN RemoveAt(c, i)
                ELSE GetHit(c, i)
      [] op = "set" -> EvictOldest(SetEntry(c, key, t, value))
      [] op = "clear" -> <<>>
      [] OTHER -> DropSession(c, key.chat_id)

LKOps == {"get", "set", "clear", "invalidate"}

(* a task calls a method: the key is made before the lock is asked for *)
LKCall(t, op, r) ==
    /\ task[t].pc = "idle"
    /\ task' = [task EXCEPT ![t] =
                   [pc |-> "acquire", op |-> op,
                    key |-> IF op \in {"get", "set"}
                            THEN MakeKey(r.chat_id, r.query, r.ids)
                            ELSE IF op = "invalidate"
                            THEN [NoKey EXCEPT !.chat_id = r.chat_id]
                            ELSE NoKey,
                    value |-> IF op = "set" THEN 1 ELSE 0]]
    /\ UNCHANGED <<lock, qcVars, idxVars, fmVars, auxVars>>

(* `async with self._lock` is entered *)
LKAcquire(t) ==
    /\ task[t].pc = "acquire"
    /\ CanAcquire(lock)
    /\ lock' = t
    /\ task' = [task EXCEPT ![t].pc = "body"]
    /\ UNCHANGED <<qcVars, idxVars, fmVars, auxVars>>

(* the task is cancelled while it waits for the lock *)
LKCancel(t) ==
    /\ task[t].pc = "acquire"
    /\ task' = [task EXCEPT ![t] = NoTask]
    /\ UNCHANGED <<lock, qcVars, idxVars, fmVars, auxVars>>

(* the body reads and writes self._cache *)
LKBody(t) ==
    /\ task[t].pc = "body"
    /\ qc' = CacheAfter(qc, task[t].op, task[t].key, now, task[t].value)
    /\ task' = [task EXCEPT ![t].pc = "release"]
    /\ UNCHANGED <<lock, now, qcRet, useOrder, stale, idxVars, fmVars, auxVars>>

(* the `async with` is left: the lock is released *)
LKRelease(t) ==
    /\ task[t].pc = "release"
    /\ lock' = "free"
    /\ task' = [task EXCEPT ![t] = NoTask]
    /\ UNCHANGED <<qcVars, idxVars, fmVars, auxVars>>

NextLK ==
    \/ \E t \in Tasks, op \in LKOps, r \in UCRequests : LKCall(t, op, r)
    \/ \E t \in Tasks : LKAcquire(t)
    \/ \E t \in Tasks : LKCancel(t)
    \/ \E t \in Tasks : LKBody(t)
    \/ \E t \in Tasks : LKRelease(t)
    \/ Tick

SpecLK == Init /\ [][NextLK]_vars

(* the QueryCache called with requests that are spelled differently: the   *)
(* value a set stores is the number of its request                         *)
KDRequestSeq ==
    <<Request("s1", <<" ", "a">>, ListIds(<<"f1", "f2">>)),
      Request("s1", <<"A", " ">>, ListIds(<<"f2", "f1">>)),
      Request("s1", <<"I">>, NoneIds),
      Request("s1", <<"dotless_i">>, ListIds(<<>>)),
      Request("s2", <<"i">>, NoneIds)>>

KDGet(i) == QCGet(KDRequestSeq[i].chat_id, KDRequestSeq[i].query, KDRequestSeq[i].ids)
KDSet(i) == QCSet(KDRequestSeq[i].chat_id, KDRequestSeq[i].query, KDRequestSeq[i].ids, i)

NextKD ==
    \/ \E i \in 1..Len(KDRequestSeq) : KDGet(i)
    \/ \E i \in 1..Len(KDRequestSeq) : KDSet(i)
    \/ QCReturn
    \/ Tick

SpecKD == Init /\ [][NextKD]_vars

----------------------------------------------------------------------------
(* FAISSManager (faiss_manager.py).  Its methods are synchronous; each is  *)
(* one step.  A vector is its id and whether it has been L2-normalised.    *)

(* the array of n embeddings handed to add_embeddings, ids from first on *)
Embeddings(first, n) == [i \in 1..n |-> [id |-> first + i - 1, norm |-> FALSE]]

(* the metadata dicts handed to add_embeddings: record i describes         *)
(* embedding i                                                             *)
Records(first, n) == [i \in 1..n |-> [id |-> first + i - 1]]

(* embeddings.copy().astype(float32) + faiss.normalize_L2 *)
NormalizeL2(e) == [i \in 1..Len(e) |-> [e[i] EXCEPT !.norm = TRUE]]

(* index.add(x) for vectors of dimension d: faiss asserts d == index.d *)
IndexAdd(index, x, d) ==
    IF d # index.d
    THEN [raised |-> "AssertionError", index |-> index]
    ELSE [raised |-> "none", index |-> [index EXCEPT !.vecs = @ \o x]]

(* add_embeddings without the count test (a faulty variant of AddEmbeddings) *)
AddEmbeddingsUnchecked(mgr, embeddings, d, metadata) ==
    [raised |-> "none",
     mgr |-> [mgr EXCEPT !.index.vecs = @ \o embeddings, !.metadata = @ \o metadata],
     value |-> Len(embeddings)]

(* add_embeddings(embeddings, metadata), embeddings of dimension d *)
AddEmbeddings(mgr, embeddings, d, metadata) ==
    IF Len(embeddings) # Len(metadata)
    THEN [raised |-> "ValueError", mgr |-> mgr, value |-> 0]
    ELSE LET a == IndexAdd(mgr.index, NormalizeL2(embeddings), d)
         IN  IF a.raised # "none"
             THEN [raised |-> a.raised, mgr |-> mgr, value |-> 0]
             ELSE [raised |-> "none",
                   mgr |-> [mgr EXCEPT !.index = a.index, !.metadata = @ \o metadata],
                   value |-> Len(embeddings)]

(* merge_indices(other_manager) *)
MergeIndices(mgr, other) ==
    IF Len(other.index.vecs) = 0
    THEN [raised |-> "none", mgr |-> mgr]
    ELSE LET a == IndexAdd(mgr.index, other.index.vecs, other.index.d)
         IN  IF a.raised # "none"
             THEN [raised |-> a.raised, mgr |-> mgr]
             ELSE [raised |-> "none",
                   mgr |-> [mgr EXCEPT !.index = a.index,
                                       !.metadata = @ \o other.metadata]]

(* clear_index *)
ClearIndex(mgr) == [mgr EXCEPT !.index = NewIndex(mgr.dimension), !.metadata = <<>>]

(* save_index(path): index.faiss is written, then metadata.pkl, each in    *)
(* place.  outcome names the write that raises and what it leaves: the     *)
(* file as it was (the open failed) or a cut-short file                    *)
SaveIndex(mgr, d, outcome) ==
    CASE outcome = "index_unopened" -> d
      [] outcome = "index_partial" -> [d EXCEPT !.idx = PartialFile]
      [] outcome = "meta_unopened" -> [d EXCEPT !.idx = FileOf(mgr.index)]
      [] outcome = "meta_partial" ->
            [d EXCEPT !.idx = FileOf(mgr.index), !.meta = PartialFile]
      [] OTHER -> [idx |-> FileOf(mgr.index), meta |-> FileOf(mgr.metadata)]

(* load_index(path): self.index is assigned as soon as the index is read,  *)
(* self.metadata after the metadata is read                                *)
LoadIndex(mgr, d, readErr) ==
    IF ~Exists(d.idx) \/ ~Exists(d.meta)
    THEN [raised |-> "FileNotFoundError", mgr |-> mgr]
    ELSE IF readErr = "index" \/ d.idx.st # "ok"
    THEN [raised |-> "ReadError", mgr |-> mgr]
    ELSE IF readErr = "metadata" \/ d.meta.st # "ok"
    THEN [raised |-> "ReadError", mgr |-> [mgr EXCEPT !.index = d.idx.data]]
    ELSE [raised |-> "none",
          mgr |-> [mgr EXCEPT !.index = d.idx.data, !.metadata = d.meta.data]]

SaveOutcomes == {"ok", "index_unopened", "index_partial", "meta_unopened", "meta_partial"}
EmbeddingCounts == {1, 2}
MetadataCounts == {0, 1, 2}
OtherCounts == {0, 1, 2}

(* another manager of dimension d that n embeddings were added to *)
OtherManager(d, n, first) ==
    IF n = 0 THEN NewManager(d)
    ELSE AddEmbeddings(NewManager(d), Embeddings(first, n), d, Records(first, n)).mgr

(* the managers merge_indices is handed: the manager itself, or another one *)
MergeSources == {fm} \cup {OtherManager(d, n, fmNext) : d \in Dimensions, n \in OtherCounts}

FMAddEmbeddings(ne, nm, d) ==
    /\ fmRet = NoFmRet
    /\ fmNext + ne - 1 <= MaxIds
    /\ Len(fm.index.vecs) + ne <= MaxVectors
    /\ Len(fm.metadata) + nm <= MaxVectors
    /\ LET r == AddEmbeddings(fm, Embeddings(fmNext, ne), d, Records(fmNext, nm))
       IN  /\ fm' = r.mgr
           /\ fmRet' = [op |-> "add_embeddings", raised |-> r.raised, value |-> r.value]
           /\ fmNext' = IF r.raised = "none" THEN fmNext + ne ELSE fmNext
    /\ UNCHANGED <<fmDir, idxVars, qcVars, lkVars, auxVars>>

FMMergeIndices(other) ==
    /\ fmRet = NoFmRet
    /\ other # fm => fmNext + Len(other.index.vecs) - 1 <= MaxIds
    /\ Len(fm.index.vecs) + Len(other.index.vecs) <= MaxVectors
    /\ Len(fm.metadata) + Len(other.metadata) <= MaxVectors
    /\ LET r == MergeIndices(fm, other)
       IN  /\ fm' = r.mgr
           /\ fmRet' = [NoFmRet EXCEPT !.op = "merge_indices", !.raised = r.raised]
           /\ fmNext' = IF other # fm /\ r.raised = "none"
                        THEN fmNext + Len(other.index.vecs) ELSE fmNext
    /\ UNCHANGED <<fmDir, idxVars, qcVars, lkVars, auxVars>>

FMClearIndex ==
    /\ fmRet = NoFmRet
    /\ fm' = ClearIndex(fm)
    /\ fmRet' = [NoFmRet EXCEPT !.op = "clear_index"]
    /\ UNCHANGED <<fmDir, fmNext, idxVars, qcVars, lkVars, auxVars>>

FMSaveIndex(outcome) ==
    /\ fmRet = NoFmRet
    /\ fmDir' = SaveIndex(fm, fmDir, outcome)
    /\ fmRet' = [NoFmRet EXCEPT !.op = "save_index",
                    !.raised = IF outcome = "ok" THEN "none" ELSE "WriteError"]
    /\ UNCHANGED <<fm, fmNext, idxVars, qcVars, lkVars, auxVars>>

FMLoadIndex(readErr) ==
    /\ fmRet = NoFmRet
    /\ LET r == LoadIndex(fm, fmDir, readErr)
       IN  /\ fm' = r.mgr
           /\ fmRet' = [NoFmRet EXCEPT !.op = "load_index", !.raised = r.raised]
    /\ UNCHANGED <<fmDir, fmNext, idxVars, qcVars, lkVars, auxVars>>

(* the caller goes on after the call *)
FMReturn ==
    /\ fmRet # NoFmRet
    /\ fmRet' = NoFmRet
    /\ UNCHANGED <<fm, fmDir, fmNext, idxVars, qcVars, lkVars, auxVars>>

NextFM ==
    \/ \E ne \in EmbeddingCounts, nm \in MetadataCounts, d \in Dimensions :
          FMAddEmbeddings(ne, nm, d)
    \/ \E other \in MergeSources : FMMergeIndices(other)
    \/ FMClearIndex
    \/ \E o \in SaveOutcomes : FMSaveIndex(o)
    \/ \E e \in ReadErrs : FMLoadIndex(e)
    \/ FMReturn

SpecFM == Init /\ [][NextFM]_vars

----------------------------------------------------------------------------
(* SemanticRetriever over a FAISSManager (retriever.py, faiss_manager.py)  *)

(* inner product of the embedding of query q with a stored vector: the     *)
(* embedding model is external, this is a fixed table of scores            *)
FmScore(q, v) == (q * v.id) % 3

RECURSIVE FmSearchFrom(_, _, _, _)
FmSearchFrom(vecs, q, S, k) ==
    IF k = 0 \/ S = {} THEN <<>>
    ELSE LET b == CHOOSE j \in S : \A m \in S :
                      \/ FmScore(q, vecs[j]) > FmScore(q, vecs[m])
                      \/ FmScore(q, vecs[j]) = FmScore(q, vecs[m]) /\ j <= m
         IN  <<b>> \o FmSearchFrom(vecs, q, S \ {b}, k - 1)

(* FAISSManager.search(query_embedding, k): two flat lists, the scores and *)
(* the 0-based positions of the best min(k, ntotal) vectors; two empty     *)
(* lists when the index is empty                                           *)
FmSearch(mgr, q, k) ==
    IF Len(mgr.index.vecs) = 0
    THEN [distances |-> <<>>, indices |-> <<>>]
    ELSE LET hits == FmSearchFrom(mgr.index.vecs, q, 1..Len(mgr.index.vecs),
                                  Min(k, Len(mgr.index.vecs)))
         IN  [distances |-> [i \in 1..Len(hits) |-> FmScore(q, mgr.index.vecs[hits[i]])],
              indices |-> [i \in 1..Len(hits) |-> hits[i] - 1]]

(* SemanticRetriever.retrieve_chunks(query, k).  Line 54 takes element 0   *)
(* of each list search returned and iterates over the two elements: on     *)
(* empty lists the subscript raises IndexError, otherwise the elements are *)
(* a float and an int and zip raises TypeError.  Either is caught and      *)
(* raised again as RuntimeError, so the loop of lines 55-88 is not         *)
(* entered and no list is returned.                                        *)
RetrieveChunks(mgr, q, k, embedOk) ==
    IF ~embedOk
    THEN [raised |-> "RuntimeError", cause |-> "embed_text", chunks |-> <<>>]
    ELSE LET r == FmSearch(mgr, q, Min(k * 3, 50))
         IN  IF r.distances = <<>> \/ r.indices = <<>>
             THEN [raised |-> "RuntimeError", cause |-> "IndexError", chunks |-> <<>>]
             ELSE [raised |-> "RuntimeError", cause |-> "TypeError", chunks |-> <<>>]

RetrieveKs == {1, 2}

SRRetrieveChunks(q, k, embedOk) ==
    /\ fmRet = NoFmRet
    /\ LET r == RetrieveChunks(fm, q, k, embedOk)
       IN  fmRet' = [op |-> "retrieve_chunks", raised |-> r.raised,
                     value |-> Len(r.chunks)]
    /\ UNCHANGED <<fm, fmDir, fmNext, idxVars, qcVars, lkVars, auxVars>>

NextSR ==
    \/ NextFM
    \/ \E q \in Queries, k \in RetrieveKs, b \in BOOLEAN : SRRetrieveChunks(q, k, b)

SpecSR == Init /\ [][NextSR]_vars

----------------------------------------------------------------------------
(* What a persisted or loaded pair holds *)

(* every vector of the add u (upload u.up, u.n chunks) is in the index *)
IndexHasUpload(index, u) ==
    \A i \in 1..u.n : \E j \in 1..Len(index) : index[j] = [vec |-> [up |-> u.up, i |-> i]]

(* every record of the add u is in the metadata list *)
MetadataHasUpload(metadata, u) ==
    \A i \in 1..u.n : \E j \in 1..Len(metadata) : metadata[j].content = [up |-> u.up, i |-> i]

(* the pair a load without read errors returns for session s *)
Persisted(s) == LoadFaissIndex(disk[s], "none")

----------------------------------------------------------------------------
(* C1: when an add has ended after its first rename and before its second  *)
(* (the second rename raised, or the process died there), a later load of  *)
(* that session never returns an index and a metadata list of different    *)
(* lengths.                                                                *)
C1_RenamePairAllOrNothing ==
    (~call.active /\ ret.val \in {"false", "crash"} /\ ret.fault = "rename_meta")
        => (Persisted(ret.sid).ok
                => Len(Persisted(ret.sid).index) = Len(Persisted(ret.sid).metadata))

(* C2: once two adds on one session have both returned True, the persisted *)
(* index and metadata of the session hold the chunks of both.              *)
C2_BothUploadsPersisted ==
    \A s \in Sessions : \A a, b \in committed[s] :
        (a # b /\ ~call.active)
            => /\ Persisted(s).ok
               /\ IndexHasUpload(Persisted(s).index, a)
               /\ IndexHasUpload(Persisted(s).index, b)
               /\ MetadataHasUpload(Persisted(s).metadata, a)
               /\ MetadataHasUpload(Persisted(s).metadata, b)

(* C3: the pair a retrieval loads always has as many records as vectors.   *)
C3_RetrievalSeesMatchingPair ==
    (obs.taken /\ obs.ok) => Len(obs.index) = Len(obs.metadata)

(* C6: when writing a temp file fails, both temp files are gone afterwards,*)
(* the persisted index and metadata files are the ones the call found, the *)
(* in-memory dictionaries are unchanged, the add returns False, and a load *)
(* returns what it returned before the call.                               *)
C6_TempWriteFailureRollsBack ==
    [][(call.active /\ call.pc \in {"write_index", "write_meta"}
            /\ ~call'.active /\ ret'.val # "crash")
        => /\ ret'.val = "false"
           /\ ret'.up = call.up
           /\ disk'[call.sid].tmpIdx = NoFile
           /\ disk'[call.sid].tmpMeta = NoFile
           /\ disk'[call.sid].idx = call.prev.idx
           /\ disk'[call.sid].meta = call.prev.meta
           /\ mem' = mem
           /\ committed' = committed
           /\ \A e \in {"none", "index", "metadata"} :
                 LoadFaissIndex(disk'[call.sid], e)
                     = LoadFaissIndex([EmptyDir EXCEPT !.idx = call.prev.idx,
                                                       !.meta = call.prev.meta], e)]_vars

(* C6 witness: the temp metadata write failed on a session that already    *)
(* had a persisted pair, and the add returned False.                       *)
C6_Witness ==
    /\ ~call.active
    /\ ret.val = "false" /\ ret.fault = "write_meta"
    /\ Persisted(ret.sid).ok

(* C7: a retrieval that loads the session's index after adds returned True *)
(* searches an index holding the vectors of every one of those adds.       *)
C7_CompletedAddsVisible ==
    (obs.taken /\ obs.ok) => \A u \in obs.committed : IndexHasUpload(obs.index, u)

(* C8: an add that finds an index file it cannot load as a pair never      *)
(* replaces the persisted index or metadata file.                          *)
C8_UnloadableStateNotReplaced ==
    [][(call.active /\ call.base = "unloadable")
        => /\ disk'[call.sid].idx = disk[call.sid].idx
           /\ disk'[call.sid].meta = disk[call.sid].meta]_vars

(* C9: a load with both files missing reports "no index", with both        *)
(* present and readable returns the pair, and with exactly one present     *)
(* reports a corrupt index, never "no index".                              *)
LoadOutcome(o) == IF o.ok THEN "pair" ELSE "no_index"

C9_LoadDistinguishesPartialPair ==
    obs.taken =>
        /\ (~obs.idxExists /\ ~obs.metaExists) => LoadOutcome(obs) = "no_index"
        /\ (obs.idxExists /\ obs.metaExists /\ obs.readErr = "none")
                => LoadOutcome(obs) = "pair"
        /\ (obs.idxExists # obs.metaExists) => LoadOutcome(obs) = "corrupt_index"

(* C4: after an upload to a session has succeeded, no QueryCache.get of    *)
(* that session returns a value that was stored before the upload.         *)
C4_UploadDropsSessionEntries ==
    (qcRet.op = "get" /\ qcRet.hit) => ~qcRet.stale

(* C10: the cache never holds more than max_size entries; a set of a new   *)
(* key on a full cache leaves exactly max_size entries; and an entry that  *)
(* a set evicts is the least recently used one, a set and a hit both       *)
(* counting as a use.                                                      *)
C10_LruBound ==
    [][/\ Len(qc') <= max_size
       /\ (qc' # qc /\ qcRet'.op = "set")
            => /\ (qcRet'.key \notin KeysOf(qc) /\ Len(qc) = max_size)
                    => (Len(qc') = max_size /\ Len(qcRet'.evicted) = 1)
               /\ \A k \in KeysOf(qc) \ KeysOf(qc') : k = useOrder[1]
               /\ \A i \in 1..Len(qcRet'.evicted) : qcRet'.evicted[i].key \notin KeysOf(qc')
               /\ KeysOf(qc) \ KeysOf(qc')
                    = {qcRet'.evicted[i].key : i \in 1..Len(qcRet'.evicted)}]_vars

(* C10 witness: a set on a full cache evicted the least recently used      *)
(* entry while an entry stored earlier than it, read since, stays cached.  *)
C10_Witness ==
    /\ qcRet.op = "set"
    /\ Len(qc) = max_size
    /\ Len(qcRet.evicted) = 1
    /\ \E i \in 1..Len(qc) : qc[i].ts < qcRet.evicted[1].ts

(* C5: after a completed add_embeddings, merge_indices, clear_index or      *)
(* load_index call, failed ones included, the manager has as many metadata *)
(* records as vectors, and record i describes vector i.                    *)
Aligned(mgr) ==
    /\ Len(mgr.metadata) = Len(mgr.index.vecs)
    /\ \A i \in 1..Len(mgr.metadata) : mgr.metadata[i].id = mgr.index.vecs[i].id

C5_MetadataMatchesIndex ==
    fmRet.op \in {"add_embeddings", "merge_indices", "clear_index", "load_index"}
        => Aligned(fm)

(* C11: a get for a cached key later than its timestamp + ttl_seconds      *)
(* returns none and removes the entry; a get not later than that returns   *)
(* the stored value.                                                       *)
C11_TtlExpiry ==
    [][(qcRet = NoQcRet /\ qcRet'.op = "get" /\ qcRet'.key \in KeysOf(qc))
        => LET e == qc[PosOf(qc, qcRet'.key)]
           IN  IF now > e.ts + ttl_seconds
               THEN /\ ~qcRet'.hit
                    /\ qcRet'.key \notin KeysOf(qc')
                    /\ Len(qc') = Len(qc) - 1
               ELSE /\ qcRet'.hit
                    /\ qcRet'.value = e.value
                    /\ qcRet'.key \in KeysOf(qc')]_vars

(* C11 witness: a get found its entry expired and removed it, while        *)
(* another entry stays cached.                                             *)
C11_Witness ==
    /\ qcRet.op = "get" /\ qcRet.expired
    /\ qcRet.key \notin KeysOf(qc)
    /\ qc # <<>>

(* C12: after invalidate_session(s) no entry of session s can be got, and  *)
(* the entries of the other sessions are the same entries (value and       *)
(* timestamp) in the same relative order.                                  *)
C12_InvalidateSessionFrame ==
    [][(qcRet = NoQcRet /\ qcRet'.op = "invalidate")
        => LET s == qcRet'.key.chat_id
           IN  /\ \A r \in Requests :
                     r.chat_id = s => PosOf(qc', MakeKey(r.chat_id, r.query, r.ids)) = 0
               /\ \A i \in 1..Len(qc') : qc'[i].key.chat_id # s
               /\ qc' = SelectSeq(qc, LAMBDA e : e.key.chat_id # s)]_vars

(* C12 witness: an invalidation removed an entry of its session and left   *)
(* an entry of another session cached.                                     *)
C12_Witness ==
    /\ qcRet.op = "invalidate"
    /\ qcRet.evicted # <<>>
    /\ qc # <<>>

(* C13: requests of one session whose queries differ only in letter case   *)
(* or in leading and trailing whitespace, and whose file-id lists are      *)
(* permutations of each other (None being the empty list), address the     *)
(* same entry: a get under one returns the live value set under the other. *)
UpperOf(c) ==
    CASE c = "a" -> "A" [] c = "b" -> "B" [] c = "i" -> "I" [] c = "dotless_i" -> "I"
      [] OTHER -> c

NonSpaces(q) == {i \in 1..Len(q) : q[i] # " "}
Core(q) ==
    IF NonSpaces(q) = {} THEN <<>>
    ELSE SubSeq(q, CHOOSE i \in NonSpaces(q) : \A j \in NonSpaces(q) : i <= j,
                   CHOOSE i \in NonSpaces(q) : \A j \in NonSpaces(q) : i >= j)

SameButCase(p, q) ==
    Len(p) = Len(q) /\ \A i \in 1..Len(p) : UpperOf(p[i]) = UpperOf(q[i])

Occurrences(l, f) == Cardinality({i \in 1..Len(l) : l[i] = f})
Permutation(k, l) ==
    Len(k) = Len(l) /\ \A i \in 1..Len(k) : Occurrences(k, k[i]) = Occurrences(l, k[i])

SameRequest(r1, r2) ==
    /\ r1.chat_id = r2.chat_id
    /\ SameButCase(Core(r1.query), Core(r2.query))
    /\ Permutation(r1.ids.ids, r2.ids.ids)

C13_EquivalentRequestsShareEntry ==
    [][\A i, j \in 1..Len(KDRequestSeq) :
          (/\ SameRequest(KDRequestSeq[i], KDRequestSeq[j])
           /\ \E n \in 1..Len(qc) : qc[n].value = i /\ ~Expired(qc[n], now)
           /\ KDGet(j))
              => qcRet'.hit /\ qcRet'.value = i]_vars

(* C14: no two tasks are inside the section that works on the map at the  *)
(* same time, every step that reads or writes the map is taken by the task *)
(* holding the lock, and a task that is not inside the section does not    *)
(* hold the lock.                                                          *)
InSection(t) == task[t].pc \in {"body", "release"}

C14_LockSerializesAccess ==
    [][/\ \A t, u \in Tasks : (InSection(t) /\ InSection(u)) => t = u
       /\ \A t \in Tasks : InSection(t) <=> lock = t
       /\ \A t \in Tasks :
             (task[t].pc = "body" /\ task'[t].pc = "release") => lock = t
       /\ qc' # qc => \E t \in Tasks : lock = t /\ task[t].pc = "body"
       /\ \A t \in Tasks :
             (task[t].pc = "release" /\ task'[t].pc = "idle") => lock' = "free"]_vars

(* C14 witness: a task is inside the section, holding the lock, while the  *)
(* other task waits for the lock.                                          *)
C14_Witness ==
    \E t, u \in Tasks :
        /\ t # u
        /\ task[t].pc = "body" /\ lock = t
        /\ task[u].pc = "acquire"
        /\ qc # <<>>

(* C15: in the persisted metadata list of a session no two records share   *)
(* a chunk_id, and the chunk_index of each record is its (0-based)         *)
(* position in the list.                                                   *)
C15_ChunkIdsUnique ==
    \A s \in Sessions :
        Persisted(s).ok =>
            LET metadata == Persisted(s).metadata
            IN  /\ \A i, j \in 1..Len(metadata) :
                      metadata[i].chunk_id = metadata[j].chunk_id => i = j
                /\ \A i \in 1..Len(metadata) :
                      /\ metadata[i].chunk_index = i - 1
                      /\ metadata[i].chunk_id = [chat |-> s, n |-> i - 1]

(* C15 witness: a session's persisted metadata holds the records of two    *)
(* adds, the second appended to the loaded first.                          *)
C15_Witness ==
    \E s \in Sessions :
        /\ Persisted(s).ok
        /\ \E i, j \in 1..Len(Persisted(s).metadata) :
              Persisted(s).metadata[i].content.up # Persisted(s).metadata[j].content.up

(* C16: add_embeddings handed a number of vectors different from the       *)
(* number of metadata records raises ValueError and leaves the index and   *)
(* the metadata list as they were.                                         *)
C16_CountMismatchRejected ==
    [][\A ne \in EmbeddingCounts, nm \in MetadataCounts, d \in Dimensions :
          (ne # nm /\ FMAddEmbeddings(ne, nm, d))
              => /\ fmRet'.op = "add_embeddings"
                 /\ fmRet'.raised = "ValueError"
                 /\ fm' = fm]_vars

(* C16 witness: add_embeddings raised ValueError on a manager that holds   *)
(* vectors and records.                                                    *)
C16_Witness ==
    /\ fmRet.op = "add_embeddings" /\ fmRet.raised = "ValueError"
    /\ fm.index.vecs # <<>> /\ fm.metadata # <<>>

(* C17: merge_indices(other) appends other's vectors and records, in       *)
(* order, when other has the dimension of the receiver; when other's       *)
(* dimension differs it raises and leaves the receiver's vectors and       *)
(* metadata unchanged.                                                     *)
C17_MergeAppendsOrRejects ==
    [][\A other \in MergeSources :
          FMMergeIndices(other)
              => IF other.index.d = fm.index.d
                 THEN /\ fmRet'.raised = "none"
                      /\ fm'.index.vecs = fm.index.vecs \o other.index.vecs
                      /\ fm'.metadata = fm.metadata \o other.metadata
                 ELSE /\ fmRet'.raised # "none"
                      /\ fm' = fm]_vars

(* C18: retrieve_chunks on a manager that holds no vectors, the query      *)
(* having been embedded, returns an empty list and does not raise.         *)
C18_EmptyIndexRetrievesNothing ==
    [][\A q \in Queries, k \in RetrieveKs :
          (fm.index.vecs = <<>> /\ SRRetrieveChunks(q, k, TRUE))
              => fmRet'.raised = "none" /\ fmRet'.value = 0]_vars

(* C19: when embedding the query fails, or the session's persisted files   *)
(* exist and fail to load, query_documents gets an error outcome, never    *)
(* the answer it gives when the search succeeded with zero matches.        *)
RetrievalFailed(o) ==
    \/ o.path = "embed_failed"
    \/ o.path = "no_index" /\ o.idxExists /\ o.metaExists

C19_FailureIsNotNoMatches ==
    (obs.taken /\ RetrievalFailed(obs))
        => QueryResponseOf(obs.chunks) # "no_relevant_information"

(* C20: a retrieval with a non-empty file filter returns only chunks whose *)
(* record's filename is in the filter.                                     *)
C20_FilterExcludesOtherFiles ==
    [][(~obs.taken /\ obs'.taken /\ obs'.chunks # <<>>)
        => \A s \in Sessions, q \in Queries, sel \in Selections, k \in TopKs,
              e \in RetrieveFaults :
              (sel # {} /\ RetrieveRelevantChunks(s, q, sel, k, e))
                  => \A i \in 1..Len(obs'.chunks) : obs'.chunks[i].filename \in sel]_vars

(* C20 witness: from a loaded pair holding records of f1 and f2 a          *)
(* retrieval returned chunks of f1 only, fewer than top_k although the     *)
(* index holds at least top_k vectors.                                     *)
C20_Witness ==
    /\ obs.taken /\ obs.ok
    /\ Len(obs.index) = Len(obs.metadata)
    /\ \E i, j \in 1..Len(obs.metadata) :
          obs.metadata[i].filename = "f1" /\ obs.metadata[j].filename = "f2"
    /\ obs.chunks # <<>>
    /\ \A i \in 1..Len(obs.chunks) : obs.chunks[i].filename = "f1"
    /\ \E k \in TopKs : Len(obs.chunks) < k /\ Len(obs.index) >= k

----------------------------------------------------------------------------
(* SearchReranker (backend/embedding/reranker.py)                          *)
(*                                                                         *)
(* A chunk is a dict with a 'content' and a 'chunk_id'; two chunks of a    *)
(* candidate list may be equal.  model.predict either raises or returns    *)
(* one score per (query, document) pair.  top_k = None and top_k = 0 are   *)
(* both falsy in `if top_k:`; the model writes 0 for both.                 *)

MaxCandidates == 3
MaxScore == 2

(* two chunks with the same content and one with another content *)
Candidates == {[content |-> "a", chunk_id |-> 1], [content |-> "a", chunk_id |-> 2],
               [content |-> "b", chunk_id |-> 1]}
CandidateLists == UNION {[1..n -> Candidates] : n \in 0..MaxCandidates}
RerankTopKs == {0, 1, 2}
Scores == 0..MaxScore

(* model.predict(pairs): an exception, or an array of len(pairs) scores *)
Predictions(n) == {[raises |-> TRUE, scores |-> <<>>]} \cup
                  {[raises |-> FALSE, scores |-> sc] : sc \in [1..n -> Scores]}

(* [(i, doc, 0.0) for i, doc in enumerate(documents)] *)
ZeroScores(documents) ==
    [i \in 1..Len(documents) |-> [idx |-> i - 1, doc |-> documents[i], score |-> 0]]

(* results.sort(key=lambda x: x[2], reverse=True): stable, ties keep their order *)
RECURSIVE SortByScore(_)
SortByScore(results) ==
    IF Len(results) <= 1 THEN results
    ELSE LET best == CHOOSE i \in 1..Len(results) : \A m \in 1..Len(results) :
                        \/ results[i].score > results[m].score
                        \/ results[i].score = results[m].score /\ i <= m
         IN  <<results[best]>> \o
             SortByScore([i \in 1..(Len(results) - 1) |->
                              IF i < best THEN results[i] ELSE results[i + 1]])

(* results[:top_k] *)
Prefix(l, k) == SubSeq(l, 1, Min(k, Len(l)))

(* a faulty variant of Rerank: documents scored 0 are dropped *)
RerankPositive(model, documents, top_k, predicted) ==
    IF ~model \/ documents = <<>> \/ predicted.raises
    THEN ZeroScores(documents)
    ELSE LET results == [i \in 1..Len(documents) |->
                            [idx |-> i - 1, doc |-> documents[i],
                             score |-> predicted.scores[i]]]
             sorted == SelectSeq(SortByScore(results), LAMBDA r : r.score > 0)
         IN  IF top_k # 0 THEN Prefix(sorted, top_k) ELSE sorted

(* SearchReranker.rerank: the list of (index, document, score) *)
Rerank(model, documents, top_k, predicted) ==
    IF ~model \/ documents = <<>>
    THEN ZeroScores(documents)
    ELSE IF predicted.raises
         THEN ZeroScores(documents)
         ELSE LET results == [i \in 1..Len(documents) |->
                                 [idx |-> i - 1, doc |-> documents[i],
                                  score |-> predicted.scores[i]]]
                  sorted == SortByScore(results)
              IN  IF top_k # 0 THEN Prefix(sorted, top_k) ELSE sorted

(* chunk.copy() with chunk['rerank_score'] = score *)
WithScore(chunk, score) ==
    [content |-> chunk.content, chunk_id |-> chunk.chunk_id, rerank_score |-> score]

(* SearchReranker.rerank_chunks.  rerank catches every exception of the    *)
(* scoring and the statements of lines 94-111 raise nothing on a list of   *)
(* dicts, so the handler of lines 112-117 is not entered.                  *)
RerankChunks(model, chunks, top_k, predicted) ==
    IF chunks = <<>>
    THEN [raised |-> FALSE, out |-> <<>>]
    ELSE LET contents == [i \in 1..Len(chunks) |-> chunks[i].content]
             results == Rerank(model, contents, 0, predicted)
             reranked_chunks == [i \in 1..Len(results) |->
                                    WithScore(chunks[results[i].idx + 1], results[i].score)]
         IN  [raised |-> FALSE,
              out |-> IF top_k # 0 THEN Prefix(reranked_chunks, top_k)
                      ELSE reranked_chunks]

RRRerankChunks(model, chunks, top_k, predicted) ==
    /\ rr = NoRr
    /\ LET r == RerankChunks(model, chunks, top_k, predicted)
       IN  rr' = [op |-> "rerank_chunks", chunks |-> chunks, top_k |-> top_k,
                  model |-> model,
                  scoring |-> IF predicted.raises THEN "raises" ELSE "scores",
                  raised |-> r.raised, out |-> r.out]
    /\ UNCHANGED <<idxVars, qcVars, fmVars, lkVars, ecVars, srVars, ckVars, rtVars>>

RRReturn ==
    /\ rr # NoRr
    /\ rr' = NoRr
    /\ UNCHANGED <<idxVars, qcVars, fmVars, lkVars, ecVars, srVars, ckVars, rtVars>>

NextRR ==
    \/ /\ rr = NoRr
       /\ \E model \in BOOLEAN, chunks \in CandidateLists, top_k \in RerankTopKs :
             \E predicted \in Predictions(Len(chunks)) :
                 RRRerankChunks(model, chunks, top_k, predicted)
    \/ RRReturn

SpecRR == Init /\ [][NextRR]_vars

(* the chunk without the score rerank_chunks added *)
Unscored(c) == [content |-> c.content, chunk_id |-> c.chunk_id]

(* C21: rerank_chunks only reorders.  A call on a non-empty candidate list *)
(* with no top_k returns the same chunks (the same multiset), each with a  *)
(* rerank_score; when the cross-encoder is unavailable or the scoring      *)
(* raises, the candidates come back in their original order with           *)
(* rerank_score 0; the call never raises.                                  *)
C21_RerankOnlyReorders ==
    (rr.op = "rerank_chunks" /\ rr.chunks # <<>>)
        => /\ ~rr.raised
           /\ rr.top_k = 0 =>
                 /\ Permutation([i \in 1..Len(rr.out) |-> Unscored(rr.out[i])], rr.chunks)
                 /\ \A i \in 1..Len(rr.out) : rr.out[i].rerank_score \in Scores
           /\ (rr.top_k = 0 /\ (~rr.model \/ rr.scoring = "raises")) =>
                 rr.out = [i \in 1..Len(rr.chunks) |-> WithScore(rr.chunks[i], 0)]

(* C21 witness: a scored call with no top_k on a list holding two equal    *)
(* chunks returned the candidates in another order.                        *)
C21_Witness ==
    /\ rr.op = "rerank_chunks" /\ rr.top_k = 0 /\ rr.model /\ rr.scoring = "scores"
    /\ \E i, j \in 1..Len(rr.chunks) : i # j /\ rr.chunks[i] = rr.chunks[j]
    /\ [i \in 1..Len(rr.out) |-> Unscored(rr.out[i])] # rr.chunks

----------------------------------------------------------------------------
(* EmbeddingCache (backend/embedding/cache.py)                             *)
(*                                                                         *)
(* memory_cache maps a digest to an embedding ("None": no key).  A file    *)
(* <digest>.npy of cache_dir is absent, holds the bytes np.save wrote for  *)
(* an array, or holds the beginning of them: np.save opens the file for    *)
(* writing, which empties it, before it writes.                            *)

(* hashlib.md5(text.encode()).hexdigest() *)
GetHash(text) == IF text = "t1" THEN "h1" ELSE "h2"

(* what np.save writes for an array, and np.load reads back from it *)
NpyOf(embedding) == [kind |-> "npy", data |-> embedding]
TruncatedNpy == [kind |-> "partial", data |-> "None"]
NpLoad(file) == file.data

(* np.save: "ok"; "open_failed": the file could not be opened, nothing is  *)
(* written; "write_failed": the file was opened and the write failed       *)
EcWriteOutcomes == {"ok", "open_failed", "write_failed"}
NpSave(files, h, embedding, outcome) ==
    CASE outcome = "ok" -> [files EXCEPT ![h] = NpyOf(embedding)]
      [] outcome = "open_failed" -> files
      [] OTHER -> [files EXCEPT ![h] = TruncatedNpy]

(* a faulty variant of EcSet: the exception of np.save is not caught *)
EcSetUncaught(cache, text, embedding, outcome) ==
    LET h == GetHash(text)
        memory == [cache.memory_cache EXCEPT ![h] = embedding]
    IN  [cache |-> [memory_cache |-> memory,
                    files |-> NpSave(cache.files, h, embedding, outcome)],
         raised |-> outcome # "ok", value |-> outcome = "ok"]

(* a faulty variant of EcSet: the embedding is written to the file only *)
EcSetFileOnly(cache, text, embedding, outcome) ==
    LET h == GetHash(text)
    IN  [cache |-> [memory_cache |-> cache.memory_cache,
                    files |-> NpSave(cache.files, h, embedding, outcome)],
         raised |-> FALSE, value |-> outcome = "ok"]

(* EmbeddingCache.set: line 59 writes memory_cache, then line 63 saves *)
EcSet(cache, text, embedding, outcome) ==
    LET h == GetHash(text)
        memory == [cache.memory_cache EXCEPT ![h] = embedding]
    IN  [cache |-> [memory_cache |-> memory,
                    files |-> NpSave(cache.files, h, embedding, outcome)],
         raised |-> FALSE, value |-> outcome = "ok"]

(* EmbeddingCache.get; readErr: np.load raises on a file np.save completed *)
EcGet(cache, text, readErr) ==
    LET h == GetHash(text)
        file == cache.files[h]
    IN  IF cache.memory_cache[h] # "None"
        THEN [cache |-> cache, value |-> cache.memory_cache[h]]
        ELSE IF file.kind # "absent"
             THEN IF file.kind = "partial" \/ readErr
                  THEN [cache |-> cache, value |-> "None"]
                  ELSE [cache |-> [cache EXCEPT !.memory_cache[h] = NpLoad(file)],
                        value |-> NpLoad(file)]
             ELSE [cache |-> cache, value |-> "None"]

(* len(self.memory_cache), len(list(cache_dir.glob("*.npy"))) *)
MemorySize(cache) == Cardinality({h \in Hashes : cache.memory_cache[h] # "None"})
DiskSize(cache) == Cardinality({h \in Hashes : cache.files[h].kind # "absent"})

ECSet(text, embedding, outcome) ==
    /\ ecRet = NoEcRet
    /\ LET r == EcSet(ec, text, embedding, outcome)
       IN  /\ ec' = r.cache
           /\ ecRet' = [op |-> "set", text |-> text, arg |-> embedding,
                        value |-> IF r.value THEN "True" ELSE "False",
                        raised |-> r.raised, outcome |-> outcome, before |-> ec]
    /\ UNCHANGED <<ecPrev, idxVars, qcVars, fmVars, lkVars, rrVars,
                 srVars, ckVars, rtVars>>

ECGet(text, readErr) ==
    /\ ecRet = NoEcRet
    /\ LET r == EcGet(ec, text, readErr)
       IN  /\ ec' = r.cache
           /\ ecRet' = [op |-> "get", text |-> text, arg |-> "None", value |-> r.value,
                        raised |-> FALSE,
                        outcome |-> IF readErr THEN "read_failed" ELSE "ok",
                        before |-> ec]
    /\ UNCHANGED <<ecPrev, idxVars, qcVars, fmVars, lkVars, rrVars,
                 srVars, ckVars, rtVars>>

(* clear_memory_cache *)
ECClearMemoryCache ==
    /\ ecRet = NoEcRet
    /\ ec' = [ec EXCEPT !.memory_cache = [h \in Hashes |-> "None"]]
    /\ ecRet' = [op |-> "clear_memory_cache", text |-> "None", arg |-> "None",
                 value |-> "None", raised |-> FALSE, outcome |-> "ok", before |-> ec]
    /\ UNCHANGED <<ecPrev, idxVars, qcVars, fmVars, lkVars, rrVars,
                 srVars, ckVars, rtVars>>

(* clear_disk_cache: unlinks the files one by one; an unlink that raises   *)
(* ends the loop with the files in `kept` still there                      *)
ECClearDiskCache(kept) ==
    /\ ecRet = NoEcRet
    /\ ec' = [ec EXCEPT !.files = [h \in Hashes |->
                                      IF h \in kept THEN ec.files[h] ELSE NoFileEc]]
    /\ ecRet' = [op |-> "clear_disk_cache", text |-> "None", arg |-> "None",
                 value |-> "None", raised |-> FALSE,
                 outcome |-> IF \E h \in kept : ec.files[h].kind # "absent"
                             THEN "unlink_failed" ELSE "ok",
                 before |-> ec]
    /\ UNCHANGED <<ecPrev, idxVars, qcVars, fmVars, lkVars, rrVars,
                 srVars, ckVars, rtVars>>

(* the caller resumes *)
ECReturn ==
    /\ ecRet # NoEcRet
    /\ ecPrev' = [ecRet EXCEPT !.before = NewCache]
    /\ ecRet' = NoEcRet
    /\ UNCHANGED <<ec, idxVars, qcVars, fmVars, lkVars, rrVars,
                 srVars, ckVars, rtVars>>

NextEC ==
    \/ \E t \in Texts, v \in Vectors, o \in EcWriteOutcomes : ECSet(t, v, o)
    \/ \E t \in Texts, e \in BOOLEAN : ECGet(t, e)
    \/ ECClearMemoryCache
    \/ \E kept \in SUBSET Hashes : ECClearDiskCache(kept)
    \/ ECReturn

SpecEC == Init /\ [][NextEC]_vars

C23_SetNeverRaises ==
    ecRet.op = "set"
        => /\ ~ecRet.raised
           /\ ecRet.outcome # "ok" => ecRet.value = "False"
           /\ (/\ ec.memory_cache[GetHash(ecRet.text)] = ecRet.arg
               /\ ec.files[GetHash(ecRet.text)] = NpyOf(ecRet.arg)
               /\ ecRet.outcome = "ok") => ecRet.value = "True"

(* C23 witness: a set whose np.save failed after opening the file ended    *)
(* and returned False.                                                     *)
C23_Witness ==
    ecRet.op = "set" /\ ecRet.outcome = "write_failed" /\ ecRet.value = "False"

(* C24: when set returns False, the memory tier and the durable tier are   *)
(* as they were before the call.                                           *)
C24_FailedSetCommitsNothing ==
    (ecRet.op = "set" /\ ecRet.value = "False") => ec = ecRet.before

(* C25: get returns None only when the text is in neither tier: neither a  *)
(* key of memory_cache nor a file of cache_dir.                            *)
C25_NoneOnlyWhenAbsent ==
    (ecRet.op = "get" /\ ecRet.value = "None")
        => /\ ecRet.before.memory_cache[GetHash(ecRet.text)] = "None"
           /\ ecRet.before.files[GetHash(ecRet.text)].kind = "absent"

----------------------------------------------------------------------------
(* SemanticRetriever.retrieve_chunks, lines 40-94 (retriever.py)           *)
(*                                                                         *)
(* The faiss_manager is a constructor argument.  With the FAISSManager of  *)
(* this repository search returns two flat lists and line 54 raises (see   *)
(* RetrieveChunks).  Lines 54-94 are written for a manager whose search    *)
(* returns what faiss's index.search returns: one row per query, k entries *)
(* per row, best inner product first, index -1 where there is no vector.   *)
(* Both shapes are modelled.  Scores are in tenths: Unit is 1.0.           *)

Unit == 10

(* the inner product a score of the table FmScore stands for: 0.0, 0.5, 1.0 *)
Tenths(score) == 5 * score

SearchShapes == {"flat", "batched"}

(* the threshold handed to __init__ and the min_score handed to            *)
(* retrieve_chunks, in tenths                                              *)
Thresholds == {-5, 5, 10, 15}
MinScores == {NoMinScore} \cup {[given |-> TRUE, v |-> v] : v \in {0, 5, 10}}
FileIdLists == {{}, {"f1"}}

(* metadata.get("file_id") and metadata.get("chunk_id") of the dict handed *)
(* in with embedding id                                                    *)
FileIdOf(m) == IF m.id % 2 = 1 THEN "f1" ELSE "f2"
ChunkIdOf(m) == m.id

(* self.threshold = max(0.0, min(1.0, threshold)) *)
ClampThreshold(threshold) ==
    LET low == IF threshold < Unit THEN threshold ELSE Unit
    IN  IF low > 0 THEN low ELSE 0

(* min_score = min_score or self.threshold: None and 0 are both falsy *)
EffectiveMinScore(min_score, threshold) ==
    IF min_score.given /\ min_score.v # 0 THEN min_score.v ELSE threshold

(* similarity = float(1.0 / (1.0 + distance)), as the fraction num/den *)
SimilarityOf(distance) == [num |-> Unit, den |-> Unit + distance]

(* similarity < min_score, a.similarity > b.similarity; den > 0 *)
BelowScore(similarity, min_score) == similarity.num * Unit < min_score * similarity.den
MoreSimilar(a, b) == a.num * b.den > b.num * a.den

(* index.search of a faiss inner-product index for one query: k entries *)
BatchedSearch(mgr, q, k) ==
    LET n == Len(mgr.index.vecs)
        hits == FmSearchFrom(mgr.index.vecs, q, 1..n, Min(k, n))
    IN  [i \in 1..k |->
            IF i <= Len(hits)
            THEN [distance |-> Tenths(FmScore(q, mgr.index.vecs[hits[i]])), idx |-> hits[i] - 1]
            ELSE [distance |-> 0, idx |-> -1]]

(* the loop of lines 54-88 from entry i of the row on *)
RECURSIVE ProcessRow(_, _, _, _, _, _)
ProcessRow(row, i, metadata, file_ids, min_score, retrieved_chunks) ==
    IF i > Len(row) THEN retrieved_chunks
    ELSE LET idx == row[i].idx
             rest(acc) == ProcessRow(row, i + 1, metadata, file_ids, min_score, acc)
         IN  IF idx < 0 \/ idx >= Len(metadata) THEN rest(retrieved_chunks)
             ELSE LET m == metadata[idx + 1]
                      similarity == SimilarityOf(row[i].distance)
                  IN  IF file_ids # {} /\ FileIdOf(m) \notin file_ids
                      THEN rest(retrieved_chunks)
                      ELSE IF BelowScore(similarity, min_score)
                      THEN rest(retrieved_chunks)
                      ELSE IF \E c \in 1..Len(retrieved_chunks) :
                                 retrieved_chunks[c].chunk_id = ChunkIdOf(m)
                      THEN rest(retrieved_chunks)
                      ELSE rest(Append(retrieved_chunks,
                                       [chunk_id |-> ChunkIdOf(m), file_id |-> FileIdOf(m),
                                        similarity |-> similarity,
                                        distance |-> row[i].distance]))

(* retrieved_chunks.sort(key=similarity, reverse=True): a stable sort *)
RECURSIVE SortRetrieved(_)
SortRetrieved(chunks) ==
    IF Len(chunks) <= 1 THEN chunks
    ELSE LET best == CHOOSE i \in 1..Len(chunks) : \A m \in 1..Len(chunks) :
                        \/ MoreSimilar(chunks[i].similarity, chunks[m].similarity)
                        \/ /\ ~MoreSimilar(chunks[m].similarity, chunks[i].similarity)
                           /\ i <= m
         IN  <<chunks[best]>> \o
             SortRetrieved([i \in 1..(Len(chunks) - 1) |->
                                IF i < best THEN chunks[i] ELSE chunks[i + 1]])

(* SemanticRetriever(embedder, mgr, threshold).retrieve_chunks(q, k,       *)
(* file_ids, min_score) over a manager of the given shape                  *)
RetrieveChunksOver(shape, mgr, q, k, file_ids, min_score, threshold, embedOk) ==
    LET effective == EffectiveMinScore(min_score, ClampThreshold(threshold))
    IN  IF shape = "flat" \/ ~embedOk
        THEN [raised |-> RetrieveChunks(mgr, q, k, embedOk).raised,
              effective |-> effective, survivors |-> <<>>, chunks |-> <<>>]
        ELSE LET row == BatchedSearch(mgr, q, Min(k * 3, 50))
                 retrieved_chunks == ProcessRow(row, 1, mgr.metadata, file_ids,
                                                effective, <<>>)
             IN  [raised |-> "none", effective |-> effective,
                  survivors |-> retrieved_chunks,
                  chunks |-> Prefix(SortRetrieved(retrieved_chunks), k)]

SRRetrieveChunksOver(shape, q, k, file_ids, min_score, threshold, embedOk) ==
    /\ fmRet = NoFmRet
    /\ sr = NoSr
    /\ LET r == RetrieveChunksOver(shape, fm, q, k, file_ids, min_score, threshold, embedOk)
       IN  sr' = [op |-> "retrieve_chunks", shape |-> shape, raised |-> r.raised,
                  k |-> k, min_score |-> min_score, threshold |-> threshold,
                  effective |-> r.effective, survivors |-> r.survivors,
                  out |-> r.chunks]
    /\ UNCHANGED <<idxVars, qcVars, fmVars, lkVars, rrVars, ecVars, ckVars, rtVars>>

SRReturn ==
    /\ sr # NoSr
    /\ sr' = NoSr
    /\ UNCHANGED <<idxVars, qcVars, fmVars, lkVars, rrVars, ecVars, ckVars, rtVars>>

NextRC ==
    \/ /\ sr = NoSr
       /\ \E ne \in EmbeddingCounts, nm \in MetadataCounts, d \in Dimensions :
             FMAddEmbeddings(ne, nm, d)
    \/ /\ sr = NoSr
       /\ FMReturn
    \/ \E shape \in SearchShapes, q \in Queries, k \in RetrieveKs, file_ids \in FileIdLists,
          min_score \in MinScores, threshold \in Thresholds, embedOk \in BOOLEAN :
          SRRetrieveChunksOver(shape, q, k, file_ids, min_score, threshold, embedOk)
    \/ SRReturn

SpecRC == Init /\ [][NextRC]_vars

C27_EffectiveMinScore ==
    sr.op = "retrieve_chunks"
        => /\ sr.min_score.given => sr.effective = sr.min_score.v
           /\ ~sr.min_score.given => sr.effective = ClampThreshold(sr.threshold)
           /\ sr.effective >= 0 /\ sr.effective <= Unit
           /\ \A i \in 1..Len(sr.out) : ~BelowScore(sr.out[i].similarity, sr.effective)

----------------------------------------------------------------------------
(* SemanticChunker.chunk_text (backend/document_processor/chunker.py)      *)
(*                                                                         *)
(* The text is the list of its paragraphs (text.split('\n\n')).  A         *)
(* paragraph is one word with white space before and after it; a string is *)
(* the number of its leading and trailing white-space characters, the      *)
(* length of what is between them, and the lengths of its words.           *)

chunk_size == 24            \* SemanticChunker.chunk_size (512 by default)
MaxParagraphs == 3          \* paragraphs of the text
MinParagraph == 10          \* line 21: shorter paragraphs are skipped

WordLengths == {3, 10, 12, 30}
Margins == {0, 1}
Paragraphs == [lead : Margins, word : WordLengths, trail : Margins]
ParagraphLists == UNION {[1..n -> Paragraphs] : n \in 0..MaxParagraphs}

EmptyString == [lead |-> 0, inner |-> 0, trail |-> 0, words |-> <<>>]
StringOf(para) == [lead |-> para.lead, inner |-> para.word, trail |-> para.trail,
                   words |-> <<para.word>>]

(* len(s), s.strip() *)
LenOf(s) == s.lead + s.inner + s.trail
StripString(s) == [s EXCEPT !.lead = 0, !.trail = 0]

(* current_chunk + "\n\n" + para, both with a word *)
JoinParagraph(current_chunk, para) ==
    [lead |-> current_chunk.lead,
     inner |-> current_chunk.inner + current_chunk.trail + 2 + para.lead + para.word,
     trail |-> para.trail,
     words |-> Append(current_chunk.words, para.word)]

(* lines 19-34: the loop over the paragraphs from i on, then the final chunk *)
RECURSIVE Accumulate(_, _, _, _)
Accumulate(paragraphs, i, current_chunk, chunks) ==
    IF i > Len(paragraphs)
    THEN IF current_chunk.inner > 0 THEN Append(chunks, StripString(current_chunk))
         ELSE chunks
    ELSE LET para == paragraphs[i]
         IN  IF para.word < MinParagraph
             THEN Accumulate(paragraphs, i + 1, current_chunk, chunks)
             ELSE IF LenOf(current_chunk) + LenOf(StringOf(para)) > chunk_size
             THEN Accumulate(paragraphs, i + 1, StringOf(para),
                             IF current_chunk.inner > 0
                             THEN Append(chunks, StripString(current_chunk))
                             ELSE chunks)
             ELSE Accumulate(paragraphs, i + 1,
                             IF LenOf(current_chunk) > 0
                             THEN JoinParagraph(current_chunk, para)
                             ELSE StringOf(para),
                             chunks)

RECURSIVE SumOf(_)
SumOf(l) == IF l = <<>> THEN 0 ELSE Head(l) + SumOf(Tail(l))

(* len(" ".join(chunk.split()[-5:])) *)
OverlapLength(chunk) ==
    LET n == Len(chunk.words)
        last == SubSeq(chunk.words, IF n > 5 THEN n - 4 ELSE 1, n)
    IN  SumOf(last) + Len(last) - 1

(* lines 37-45: the lengths of the chunks returned *)
Overlapped(chunks) ==
    [i \in 1..Len(chunks) |->
        IF i > 1 THEN OverlapLength(chunks[i - 1]) + 1 + LenOf(chunks[i])
        ELSE LenOf(chunks[i])]

CKChunkText(paragraphs) ==
    /\ ck = NoCk
    /\ LET chunks == Accumulate(paragraphs, 1, EmptyString, <<>>)
       IN  ck' = [op |-> "chunk_text", paragraphs |-> paragraphs, chunks |-> chunks,
                  overlapped_chunks |-> Overlapped(chunks)]
    /\ UNCHANGED <<idxVars, qcVars, fmVars, lkVars, rrVars, ecVars, srVars, rtVars>>

CKReturn ==
    /\ ck # NoCk
    /\ ck' = NoCk
    /\ UNCHANGED <<idxVars, qcVars, fmVars, lkVars, rrVars, ecVars, srVars, rtVars>>

NextCK ==
    \/ /\ ck = NoCk
       /\ \E paragraphs \in ParagraphLists : CKChunkText(paragraphs)
    \/ CKReturn

SpecCK == Init /\ [][NextCK]_vars

(* C28: every chunk built from two or more paragraphs, before the overlap  *)
(* prefix is added, has at most chunk_size characters.                     *)
C28_AccumulatedChunkWithinSize ==
    ck.op = "chunk_text"
        => \A i \in 1..Len(ck.chunks) :
              Len(ck.chunks[i].words) >= 2 => LenOf(ck.chunks[i]) <= chunk_size

----------------------------------------------------------------------------
(* retry_with_backoff (backend/error_handler.py)                           *)
(*                                                                         *)
(* One call of the wrapper, statement by statement: the loop of line 48,   *)
(* the invocation of func (line 51), the sleep (lines 57-58), the raise of *)
(* line 62.  Invocation number i of func returns the value i or raises the *)
(* exception i.  The wrapper runs on one thread: func and time.sleep       *)
(* return, so a started wrapper keeps taking steps.                        *)

MaxRetries == 2

RetryConfigs == [max_retries : 0..MaxRetries, initial_delay : {1, 2},
                 max_delay : {1, 4}, backoff_factor : {1, 2, 3}]
FuncOutcomes == {"returns", "raises"}

(* a faulty variant of NextDelay: the delay is not capped *)
NextDelayUncapped(delay, config) == delay * config.backoff_factor

(* line 58: min(delay * config.backoff_factor, config.max_delay) *)
NextDelay(delay, config) == Min(delay * config.backoff_factor, config.max_delay)

(* the wrapper is called: lines 45-46 *)
RTCall(config) ==
    /\ rt.pc = "idle"
    /\ rt' = [pc |-> "try", config |-> config, attempt |-> 0,
              delay |-> config.initial_delay, last_exception |-> 0,
              outcomes |-> <<>>, sleeps |-> <<>>, value |-> 0]
    /\ UNCHANGED <<idxVars, qcVars, fmVars, lkVars, rrVars, ecVars, srVars, ckVars>>

(* lines 48-55, 59-62: one iteration up to the sleep *)
RTAttempt(outcome) ==
    /\ rt.pc = "try"
    /\ IF rt.attempt >= rt.config.max_retries + 1
       THEN rt' = [rt EXCEPT !.pc = "raised", !.value = rt.last_exception]
       ELSE LET n == Len(rt.outcomes) + 1
            IN  IF outcome = "returns"
                THEN rt' = [rt EXCEPT !.pc = "returned", !.value = n,
                                      !.outcomes = Append(@, outcome)]
                ELSE rt' = [rt EXCEPT !.last_exception = n,
                                      !.outcomes = Append(@, outcome),
                                      !.pc = IF rt.attempt < rt.config.max_retries
                                             THEN "sleep" ELSE "try",
                                      !.attempt = IF rt.attempt < rt.config.max_retries
                                                  THEN @ ELSE @ + 1]
    /\ UNCHANGED <<idxVars, qcVars, fmVars, lkVars, rrVars, ecVars, srVars, ckVars>>

(* lines 57-58, and the next value of attempt *)
RTSleep ==
    /\ rt.pc = "sleep"
    /\ rt' = [rt EXCEPT !.pc = "try", !.sleeps = Append(@, rt.delay),
                        !.delay = NextDelay(rt.delay, rt.config),
                        !.attempt = @ + 1]
    /\ UNCHANGED <<idxVars, qcVars, fmVars, lkVars, rrVars, ecVars, srVars, ckVars>>

(* the caller goes on with the value or the exception *)
RTReturn ==
    /\ rt.pc \in {"returned", "raised"}
    /\ rt' = NoRt
    /\ UNCHANGED <<idxVars, qcVars, fmVars, lkVars, rrVars, ecVars, srVars, ckVars>>

RTStep == (\E o \in FuncOutcomes : RTAttempt(o)) \/ RTSleep

NextRT ==
    \/ \E config \in RetryConfigs : RTCall(config)
    \/ \E o \in FuncOutcomes : RTAttempt(o)
    \/ RTSleep
    \/ RTReturn

SpecRT == Init /\ [][NextRT]_vars /\ WF_vars(RTStep)

(* the wrapper of rt is over *)
RtEnded == rt.pc \in {"returned", "raised"}

(* invocations 1..n-1 of func raised *)
AllRaised(outcomes, n) == \A i \in 1..n : outcomes[i] = "raises"

C29_Safety ==
    /\ Len(rt.outcomes) <= rt.config.max_retries + 1
    /\ rt.pc = "returned" =>
          /\ rt.outcomes[Len(rt.outcomes)] = "returns"
          /\ AllRaised(rt.outcomes, Len(rt.outcomes) - 1)
          /\ rt.value = Len(rt.outcomes)
    /\ rt.pc = "raised" =>
          /\ Len(rt.outcomes) = rt.config.max_retries + 1
          /\ AllRaised(rt.outcomes, Len(rt.outcomes))
          /\ rt.value = Len(rt.outcomes)
    /\ RtEnded => Len(rt.sleeps) = Len(rt.outcomes) - 1
    /\ rt.pc \in {"try", "sleep"} => Len(rt.sleeps) \in {Len(rt.outcomes) - 1, Len(rt.outcomes)}
    /\ \A i \in 1..Len(rt.sleeps) :
          rt.sleeps[i] = IF i = 1 THEN rt.config.initial_delay
                         ELSE Min(rt.sleeps[i - 1] * rt.config.backoff_factor,
                                  rt.config.max_delay)

(* C29: the wrapped function is invoked at most max_retries + 1 times and  *)
(* the wrapper ends: with the value of the first invocation that returned, *)
(* no invocation following it, or, after max_retries + 1 invocations that  *)
(* raised, with the exception of the last one; it sleeps once between two  *)
(* consecutive invocations, the first delay being initial_delay and each   *)
(* later one min(previous * backoff_factor, max_delay).                    *)
C29_RetryBoundedAndEnds ==
    /\ []C29_Safety
    /\ (rt.pc # "idle") ~> RtEnded

(* C29 witness: a wrapper with max_retries 2 ended with the exception of   *)
(* the third invocation after sleeping 2 and then 4.                       *)
C29_Witness ==
    /\ rt.pc = "raised" /\ rt.config.max_retries = 2 /\ rt.value = 3
    /\ rt.sleeps = <<2, 4>>

----------------------------------------------------------------------------
(* the entry of a cached key *)
EntryOf(c, key) == c[PosOf(c, key)]

(* C30: the TTL of a QueryCache entry runs from its last set.  A get that  *)
(* hits makes the entry the most recently used and leaves its timestamp    *)
(* and value as they are; a get later than timestamp + ttl_seconds misses  *)
(* however often the entry was read; the timestamp of a cached key changes *)
(* only in a set of that key, which stores the new value with the current  *)
(* time.                                                                   *)
C30_TtlFromLastSet ==
    [][(qcRet = NoQcRet /\ qcRet'.op # "none")
        => /\ (qcRet'.op = "get" /\ qcRet'.hit) =>
                 /\ qc'[Len(qc')] = EntryOf(qc, qcRet'.key)
                 /\ now <= EntryOf(qc, qcRet'.key).ts + ttl_seconds
           /\ (qcRet'.op = "get" /\ qcRet'.key \in KeysOf(qc)
                 /\ now > EntryOf(qc, qcRet'.key).ts + ttl_seconds) => ~qcRet'.hit
           /\ \A i \in 1..Len(qc) :
                 (qc[i].key \in KeysOf(qc') /\ EntryOf(qc', qc[i].key) # qc[i])
                     => qcRet'.op = "set" /\ qcRet'.key = qc[i].key
           /\ qcRet'.op = "set" =>
                 \A r \in Requests, v \in QValues :
                     QCSet(r.chat_id, r.query, r.ids, v)
                         => qc'[Len(qc')] = [key |-> qcRet'.key, ts |-> now, value |-> v]]_vars

(* C30 witness: a get hit an entry stored at an earlier time; the entry is *)
(* now the most recently used, after another entry, with the timestamp of  *)
(* its set.                                                                *)
C30_Witness ==
    /\ qcRet.op = "get" /\ qcRet.hit
    /\ Len(qc) >= 2
    /\ qc[Len(qc)].key = qcRet.key
    /\ qc[Len(qc)].ts < now
    /\ qc[1].ts = now

====
